---- MODULE Spec2Model ----
(***************************************************************************)
(* The image-kitty command of vtc: one invocation of ImageKitty.run, from  *)
(* argument parsing to the single write of the APC frames, with strings    *)
(* modelled as sequences of one-character strings and byte buffers as      *)
(* sequences of integers 0..255.                                           *)
(***************************************************************************)
EXTENDS Integers, Sequences, FiniteSets, TLC

\* ---------------------------------------------------------------- bounds
\* longest raw (non-PNG) input file, in bytes
MaxFileLen == 3
\* most bytes that follow the signature in a PNG input file
MaxPngBody == 1
\* largest configured chunk size
MaxChunk == 3
\* most pixels in an image returned by decodePng
MaxPixels == 2

\* ------------------------------------------------------ program constants
DEFAULT_CHUNK_SIZE == 4096

PNG_SIGNATURE == <<137, 80, 78, 71, 13, 10, 26, 10>>

\* ------------------------------------------------------------- primitives
\* an optional value: <<>> is JavaScript's undefined, <<v>> is the value v
None == <<>>

Some(v) == <<v>>

IsDefined(o) == o /= None

Val(o) == o[1]

\* a ?? b
OrElse(o, d) == IF IsDefined(o) THEN Val(o) ELSE d

Min(a, b) == IF a < b THEN a ELSE b

Max(a, b) == IF a > b THEN a ELSE b

\* the ESC character 0x1b
ESC == "ESC"

Digits == <<"0", "1", "2", "3", "4", "5", "6", "7", "8", "9">>

\* `${n}` for an integer n
RECURSIVE NumToStr(_)
NumToStr(n) ==
  IF n < 0 THEN <<"-">> \o NumToStr(-n)
  ELSE IF n < 10 THEN <<Digits[n + 1]>>
  ELSE NumToStr(n \div 10) \o <<Digits[(n % 10) + 1]>>

\* String.prototype.slice(start, end) on a sequence of characters
StrSlice(s, start, end) ==
  LET n == Len(s)
      from == IF start < 0 THEN Max(n + start, 0) ELSE Min(start, n)
      to == IF end < 0 THEN Max(n + end, 0) ELSE Min(end, n)
  IN IF from >= to THEN <<>> ELSE SubSeq(s, from + 1, to)

\* Array.prototype.join(sep) on a sequence of strings
RECURSIVE Join(_, _)
Join(strs, sep) ==
  IF strs = <<>> THEN <<>>
  ELSE IF Len(strs) = 1 THEN strs[1]
  ELSE strs[1] \o sep \o Join(Tail(strs), sep)

\* the standard base64 alphabet, index 0..63 at position 1..64
B64Alphabet ==
  <<
     "A", "B", "C", "D", "E", "F", "G", "H", "I", "J", "K", "L", "M", "N", "O", "P",
     "Q", "R", "S", "T", "U", "V", "W", "X", "Y", "Z", "a", "b", "c", "d", "e", "f",
     "g", "h", "i", "j", "k", "l", "m", "n", "o", "p", "q", "r", "s", "t", "u", "v",
     "w", "x", "y", "z", "0", "1", "2", "3", "4", "5", "6", "7", "8", "9", "+", "/" >>

B64Char(k) == B64Alphabet[k + 1]

\* Buffer.from(bytes).toString("base64"): 3 bytes to 4 characters, padded
RECURSIVE ToBase64(_)
ToBase64(bytes) ==
  IF Len(bytes) = 0 THEN <<>>
  ELSE IF Len(bytes) = 1 THEN
    << B64Char(bytes[1] \div 4), B64Char((bytes[1] % 4) * 16), "=", "=" >>
  ELSE IF Len(bytes) = 2 THEN
    << B64Char(bytes[1] \div 4),
       B64Char((bytes[1] % 4) * 16 + (bytes[2] \div 16)),
       B64Char((bytes[2] % 16) * 4), "=" >>
  ELSE
    << B64Char(bytes[1] \div 4),
       B64Char((bytes[1] % 4) * 16 + (bytes[2] \div 16)),
       B64Char((bytes[2] % 16) * 4 + (bytes[3] \div 64)),
       B64Char(bytes[3] % 64) >>
    \o ToBase64(SubSeq(bytes, 4, Len(bytes)))

\* ------------------------------------------------------------- helpers/vt
\* `${key}=${value}` for a value already rendered as characters
KeyVal(key, valueChars) == <<key, "=">> \o valueChars

\* osc that leaves the metadata segment and its ';' out when there is no
\* metadata
oscSkipsEmptyMeta(metadata, payload) ==
  IF metadata = <<>>
  THEN <<ESC, "]", "9", "9", ";">> \o payload \o <<ESC, "\\">>
  ELSE <<ESC, "]", "9", "9", ";">> \o Join(metadata, <<":">>) \o <<";">>
         \o payload \o <<ESC, "\\">>

osc(metadata, payload) ==
  LET metaValue == Join(metadata, <<":">>)
  IN <<ESC, "]", "9", "9", ";">> \o metaValue \o <<";">> \o payload \o <<ESC, "\\">>

\* apc that puts no ';' between the metadata and the payload
apcNoSeparator(metadata, payload) ==
  <<ESC, "_", "G">> \o Join(metadata, <<",">>) \o payload \o <<ESC, "\\">>

apc(metadata, payload) ==
  LET metaValue == Join(metadata, <<",">>)
  IN <<ESC, "_", "G">> \o metaValue \o <<";">> \o payload \o <<ESC, "\\">>

\* ------------------------------------------------------------ image-kitty
formatToCode(format) ==
  CASE format = "rgb" -> 24
    [] format = "rgba" -> 32
    [] format = "png" -> 100
    [] OTHER -> 100

\* isPng that looks at the four magic bytes 0x89 'P' 'N' 'G' only
isPngMagicOnly(data) ==
  IF Len(data) < 4 THEN FALSE
  ELSE \A k \in 1..4 : data[k] = PNG_SIGNATURE[k]

isPng(data) ==
  IF Len(data) < Len(PNG_SIGNATURE) THEN FALSE
  ELSE \A k \in 1..Len(PNG_SIGNATURE) : data[k] = PNG_SIGNATURE[k]

\* the RGBA to RGB strip loop of run: bytes 4i, 4i+1, 4i+2 of every pixel
StripAlpha(rgba, pixelCount) ==
  [k \in 1..(pixelCount * 3) |-> rgba[((k - 1) \div 3) * 4 + ((k - 1) % 3) + 1]]

\* ------------------------------------------------------------ the inputs
\* byte values an input file is made of
ByteVals == {0, 255}

RECURSIVE SeqsOfLen(_, _)
SeqsOfLen(S, n) ==
  IF n = 0 THEN {<<>>}
  ELSE {<<x>> \o t : x \in S, t \in SeqsOfLen(S, n - 1)}

SeqsUpTo(S, n) == UNION {SeqsOfLen(S, k) : k \in 0..n}

\* files that do not start with the PNG signature
RawFiles == SeqsUpTo(ByteVals, MaxFileLen)

\* files that start with the PNG signature
PngFiles == {PNG_SIGNATURE \o body : body \in SeqsUpTo({0}, MaxPngBody)}

\* the file generateDemoPng returns: one fixed PNG
DemoPng == PNG_SIGNATURE \o <<0>>

\* what Bun.file(path).arrayBuffer() can deliver
Files == RawFiles \cup PngFiles

\* RGBA pixels of a decoded image, repeated in this order
PixelCycle == << <<255, 0, 0, 255>>, <<0, 255, 0, 128>> >>

\* the first n pixels of the repeated cycle
PixelRun(n) ==
  [k \in 1..n |-> PixelCycle[((k - 1) % Len(PixelCycle)) + 1]]

RECURSIVE Flatten(_)
Flatten(ss) == IF ss = <<>> THEN <<>> ELSE ss[1] \o Flatten(Tail(ss))

\* what decodePng(fileBytes, {force32: true}) can return: width, height and
\* width*height*4 bytes of RGBA data
DecodedImages ==
  {[width |-> d[1], height |-> d[2], data |-> Flatten(PixelRun(d[1] * d[2]))] :
     d \in {e \in (1..MaxPixels) \X (1..MaxPixels) : e[1] * e[2] <= MaxPixels}}

OptOf(S) == {None} \cup {Some(v) : v \in S}

\* the options that only add keys to the first frame
NoDisplay ==
  [columns |-> None, rows |-> None, imageId |-> None, quiet |-> None,
   noMove |-> FALSE, srcX |-> None, srcY |-> None, srcWidth |-> None,
   srcHeight |-> None, offsetX |-> None, offsetY |-> None]

AllDisplay ==
  [columns |-> Some(40), rows |-> Some(20), imageId |-> Some(5),
   quiet |-> Some("2"), noMove |-> TRUE, srcX |-> Some(0), srcY |-> Some(1),
   srcWidth |-> Some(2), srcHeight |-> Some(3), offsetX |-> Some(4),
   offsetY |-> Some(6)]

DisplayChoices ==
  {NoDisplay, AllDisplay,
   [NoDisplay EXCEPT !.imageId = Some(42)],
   [NoDisplay EXCEPT !.quiet = Some("1")]}

\* the values a caller passes as --width and --height
CallerDims == {1, 2}

CoreChoices ==
  [demo : BOOLEAN,
   action : OptOf({"transmit-display", "query"}),
   format : {"png", "rgb", "rgba"},
   chunkSize : OptOf(1..MaxChunk),
   width : OptOf(CallerDims),
   height : OptOf(CallerDims)]

\* the flags this.parse(ImageKitty) can deliver
FlagChoices == {core @@ disp : core \in CoreChoices, disp \in DisplayChoices}

ArgChoices == [file : OptOf({"path"})]

\* ---------------------------------------------------------------- state
VARIABLES
  pc,          \* position of the invocation in run / emitTransmitDisplay
  args,        \* parsed positional arguments
  flags,       \* parsed flags
  helpShown,   \* showCommandHelp was called
  failure,     \* the error the invocation was rejected with, if any
  fileBytes,   \* run: fileBytes
  fileIsPng,   \* run: fileIsPng
  width,       \* run: width
  height,      \* run: height
  decoded,     \* run: decoded.image, what decodePng returned
  pixelData,   \* run: pixelData
  base64,      \* run / emitTransmitDisplay: base64
  emitFlags,   \* emitTransmitDisplay: flags
  chunks,      \* emitTransmitDisplay: chunks
  i,           \* emitTransmitDisplay: loop index
  parts,       \* emitTransmitDisplay: parts
  output       \* the data of every writeRaw call, in call order

vars ==
  <<pc, args, flags, helpShown, failure, fileBytes, fileIsPng, width, height,
    decoded, pixelData, base64, emitFlags, chunks, i, parts, output>>

runLocals ==
  <<fileBytes, fileIsPng, width, height, decoded, pixelData, base64>>

emitLocals == <<emitFlags, chunks, i, parts>>

Init ==
  /\ pc = "start"
  /\ args = [file |-> None]
  /\ flags = [demo |-> FALSE, action |-> None, format |-> "png",
              chunkSize |-> None, width |-> None, height |-> None] @@ NoDisplay
  /\ helpShown = FALSE
  /\ failure = None
  /\ fileBytes = <<>>
  /\ fileIsPng = FALSE
  /\ width = None
  /\ height = None
  /\ decoded = [width |-> 0, height |-> 0, data |-> <<>>]
  /\ pixelData = <<>>
  /\ base64 = <<>>
  /\ emitFlags = flags
  /\ chunks = <<>>
  /\ i = 0
  /\ parts = <<>>
  /\ output = <<>>

\* process.stdout.write(data), recorded as the test double records it
writeRaw(data) == output' = Append(output, data)

\* this.error(message): the invocation is rejected with the message
error(message) ==
  /\ failure' = Some(message)
  /\ pc' = "failed"

\* const { args, flags } = await this.parse(ImageKitty)
Parse ==
  /\ pc = "start"
  /\ \E a \in ArgChoices, f \in FlagChoices :
       /\ args' = a
       /\ flags' = f
  /\ pc' = "parsed"
  /\ UNCHANGED <<helpShown, failure, runLocals, emitLocals, output>>

\* run, lines 97-100
ShowHelp ==
  /\ pc = "parsed"
  /\ ~IsDefined(args.file) /\ ~flags.demo /\ ~IsDefined(flags.action)
  /\ helpShown' = TRUE
  /\ pc' = "done"
  /\ UNCHANGED <<args, flags, failure, runLocals, emitLocals, output>>

action == OrElse(flags.action, "transmit-display")

\* QueryMeta that pushes the image id instead of replacing the default
QueryMetaPushesId(f) ==
  LET meta == << <<"a", "=", "q">>, <<"i", "=", "3", "1">> >>
      meta1 == IF IsDefined(f.imageId)
               THEN Append(meta, KeyVal("i", NumToStr(Val(f.imageId))))
               ELSE meta
  IN IF IsDefined(f.quiet)
     THEN Append(meta1, KeyVal("q", <<Val(f.quiet)>>))
     ELSE meta1

QueryMeta(f) ==
  LET meta == <<<<"a", "=", "q">>, <<"i", "=", "3", "1">>>>
      meta1 == IF IsDefined(f.imageId)
               THEN [meta EXCEPT ![2] = KeyVal("i", NumToStr(Val(f.imageId)))]
               ELSE meta
  IN IF IsDefined(f.quiet)
     THEN Append(meta1, KeyVal("q", <<Val(f.quiet)>>))
     ELSE meta1

\* emitQuery
emitQuery(f) == writeRaw(apc(QueryMeta(f), <<>>))

\* run, lines 104-107
Query ==
  /\ pc = "parsed"
  /\ ~(~IsDefined(args.file) /\ ~flags.demo /\ ~IsDefined(flags.action))
  /\ action = "query"
  /\ emitQuery(flags)
  /\ pc' = "done"
  /\ UNCHANGED <<args, flags, helpShown, failure, runLocals, emitLocals>>

\* run, lines 109-111
FileRequired ==
  /\ pc = "parsed"
  /\ ~(~IsDefined(args.file) /\ ~flags.demo /\ ~IsDefined(flags.action))
  /\ action /= "query"
  /\ ~IsDefined(args.file) /\ ~flags.demo
  /\ error("File argument is required for transmit-display action")
  /\ UNCHANGED <<args, flags, helpShown, runLocals, emitLocals, output>>

\* run, lines 113-124: read the file (or generate the demo image), detect PNG
ReadFile ==
  /\ pc = "parsed"
  /\ ~(~IsDefined(args.file) /\ ~flags.demo /\ ~IsDefined(flags.action))
  /\ action /= "query"
  /\ ~(~IsDefined(args.file) /\ ~flags.demo)
  /\ \E bytes \in (IF flags.demo THEN {DemoPng} ELSE Files) :
       /\ fileBytes' = bytes
       /\ fileIsPng' = isPng(bytes)
  /\ width' = flags.width
  /\ height' = flags.height
  /\ pc' = "resolve"
  /\ UNCHANGED <<args, flags, helpShown, failure, decoded, pixelData, base64,
                 emitLocals, output>>

\* this.emitTransmitDisplay(base64, { ...flags, width, height }), up to the
\* first loop
CallEmit(b64, w, h) ==
  /\ base64' = b64
  /\ emitFlags' = [flags EXCEPT !.width = w, !.height = h]
  /\ chunks' = <<>>
  /\ i' = 0
  /\ parts' = <<>>
  /\ pc' = "chunk"

\* run, lines 126-129
NotValidPng ==
  /\ pc = "resolve"
  /\ flags.format = "png"
  /\ ~fileIsPng
  /\ error("Input file is not a valid PNG")
  /\ UNCHANGED <<args, flags, helpShown, runLocals, emitLocals, output>>

\* SendPng without the check that the file is a PNG
SendPngUnchecked ==
  /\ pc = "resolve"
  /\ flags.format = "png"
  /\ CallEmit(ToBase64(fileBytes), width, height)
  /\ UNCHANGED <<args, flags, helpShown, failure, fileBytes, fileIsPng, width,
                 height, decoded, pixelData, output>>

\* run, lines 126-131 and 162
SendPng ==
  /\ pc = "resolve"
  /\ flags.format = "png"
  /\ fileIsPng
  /\ CallEmit(ToBase64(fileBytes), width, height)
  /\ UNCHANGED <<args, flags, helpShown, failure, fileBytes, fileIsPng, width,
                 height, decoded, pixelData, output>>

\* run, line 134: decodePng rejects a file whose body is malformed
DecodeFails ==
  /\ pc = "resolve"
  /\ flags.format /= "png"
  /\ fileIsPng
  /\ failure' = Some("DecodeError")
  /\ pc' = "failed"
  /\ UNCHANGED <<args, flags, helpShown, runLocals, emitLocals, output>>

\* run, lines 138-152: the bytes to send of a decoded image
PixelDataOf(format, image) ==
  IF format = "rgb"
  THEN StripAlpha(image.data, image.width * image.height)
  ELSE image.data

\* DecodePng in which a caller-supplied dimension wins over the decoded one
DecodePngCallerWins ==
  /\ pc = "resolve"
  /\ flags.format /= "png"
  /\ fileIsPng
  /\ \E image \in DecodedImages :
       /\ decoded' = image
       /\ width' = Some(OrElse(flags.width, image.width))
       /\ height' = Some(OrElse(flags.height, image.height))
       /\ pixelData' = PixelDataOf(flags.format, image)
       /\ CallEmit(ToBase64(pixelData'), width', height')
  /\ UNCHANGED <<args, flags, helpShown, failure, fileBytes, fileIsPng, output>>

\* run, lines 132-153 and 162
DecodePng ==
  /\ pc = "resolve"
  /\ flags.format /= "png"
  /\ fileIsPng
  /\ \E image \in DecodedImages :
       /\ decoded' = image
       /\ width' = Some(image.width)
       /\ height' = Some(image.height)
       /\ pixelData' = PixelDataOf(flags.format, image)
       /\ CallEmit(ToBase64(pixelData'), width', height')
  /\ UNCHANGED <<args, flags, helpShown, failure, fileBytes, fileIsPng, output>>

\* run, lines 154-158
MissingDims ==
  /\ pc = "resolve"
  /\ flags.format /= "png"
  /\ ~fileIsPng
  /\ (~IsDefined(width) \/ ~IsDefined(height))
  /\ error("--width and --height are required for raw rgb/rgba input files")
  /\ UNCHANGED <<args, flags, helpShown, runLocals, emitLocals, output>>

\* SendRaw that is content with one of the two dimensions
SendRawEitherDim ==
  /\ pc = "resolve"
  /\ flags.format /= "png"
  /\ ~fileIsPng
  /\ ~(~IsDefined(width) /\ ~IsDefined(height))
  /\ CallEmit(ToBase64(fileBytes), width, height)
  /\ UNCHANGED <<args, flags, helpShown, failure, fileBytes, fileIsPng, width,
                 height, decoded, pixelData, output>>

\* run, lines 154-162
SendRaw ==
  /\ pc = "resolve"
  /\ flags.format /= "png"
  /\ ~fileIsPng
  /\ ~(~IsDefined(width) \/ ~IsDefined(height))
  /\ CallEmit(ToBase64(fileBytes), width, height)
  /\ UNCHANGED <<args, flags, helpShown, failure, fileBytes, fileIsPng, width,
                 height, decoded, pixelData, output>>

\* emitTransmitDisplay, line 208
formatCode == formatToCode(emitFlags.format)

\* size rounded up to a whole number of base64 quanta
sizeRealigned ==
  ((OrElse(emitFlags.chunkSize, DEFAULT_CHUNK_SIZE) + 3) \div 4) * 4

\* size that never goes below 1
sizeAtLeastOne == Max(OrElse(emitFlags.chunkSize, DEFAULT_CHUNK_SIZE), 1)

\* emitTransmitDisplay, line 209
size == OrElse(emitFlags.chunkSize, DEFAULT_CHUNK_SIZE)

\* ChunkAt with the end of the slice one character short
ChunkAtShort(text, k, n) == StrSlice(text, k, k + n - 1)

\* emitTransmitDisplay, line 212: the slice pushed at index k
ChunkAt(text, k, n) == StrSlice(text, k, k + n)

\* emitTransmitDisplay, lines 211-213: one iteration of the chunking loop
ChunkStep ==
  /\ pc = "chunk"
  /\ i < Len(base64)
  /\ chunks' = Append(chunks, ChunkAt(base64, i, size))
  /\ i' = i + size
  /\ UNCHANGED <<pc, args, flags, helpShown, failure, runLocals, emitFlags,
                 parts, output>>

\* ChunkDone that gives an empty text one empty chunk
ChunkDonePadsEmpty ==
  /\ pc = "chunk"
  /\ ~(i < Len(base64))
  /\ chunks' = IF chunks = <<>> THEN << <<>> >> ELSE chunks
  /\ i' = 0
  /\ pc' = "frame"
  /\ UNCHANGED <<args, flags, helpShown, failure, runLocals, emitFlags,
                 parts, output>>

\* emitTransmitDisplay, lines 211-217: the chunking loop ends
ChunkDone ==
  /\ pc = "chunk"
  /\ ~(i < Len(base64))
  /\ i' = 0
  /\ pc' = "frame"
  /\ UNCHANGED <<args, flags, helpShown, failure, runLocals, emitFlags,
                 chunks, parts, output>>

\* OptNum that tests the option for truthiness, so that 0 counts as absent
OptNumTruthy(key, o) ==
  IF IsDefined(o) /\ Val(o) /= 0 THEN <<KeyVal(key, NumToStr(Val(o)))>> ELSE <<>>

\* `${key}=${value}` pushed only if the numeric option is given
OptNum(key, o) ==
  IF IsDefined(o) THEN <<KeyVal(key, NumToStr(Val(o)))>> ELSE <<>>

\* emitTransmitDisplay, lines 223-238: the keys of the first frame
DisplayMeta(f, code) ==
  << <<"a", "=", "T">>, KeyVal("f", NumToStr(code)) >>
  \o OptNum("s", f.width)
  \o OptNum("v", f.height)
  \o OptNum("c", f.columns)
  \o OptNum("r", f.rows)
  \o OptNum("i", f.imageId)
  \o (IF IsDefined(f.quiet) THEN <<KeyVal("q", <<Val(f.quiet)>>)>> ELSE <<>>)
  \o (IF f.noMove THEN << <<"C", "=", "1">> >> ELSE <<>>)
  \o OptNum("x", f.srcX)
  \o OptNum("y", f.srcY)
  \o OptNum("w", f.srcWidth)
  \o OptNum("h", f.srcHeight)
  \o OptNum("X", f.offsetX)
  \o OptNum("Y", f.offsetY)

\* ContinuationKey that marks every frame as followed by another
ContinuationKeyAlwaysMore(isLast) == KeyVal("m", NumToStr(1))

\* emitTransmitDisplay, line 241
ContinuationKey(isLast) == KeyVal("m", NumToStr(IF isLast THEN 0 ELSE 1))

\* FrameMeta that repeats the display keys on every frame
FrameMetaOnEveryFrame(f, code, k, n) ==
  DisplayMeta(f, code) \o <<ContinuationKey(k = n - 1)>>

\* emitTransmitDisplay, lines 218-241: the metadata of frame k of n
FrameMeta(f, code, k, n) ==
  LET isFirst == k = 0
      isLast == k = n - 1
  IN (IF isFirst THEN DisplayMeta(f, code) ELSE <<>>)
     \o <<ContinuationKey(isLast)>>

\* FrameStep that also writes each frame as soon as it is built
FrameStepFlushing ==
  /\ pc = "frame"
  /\ i < Len(chunks)
  /\ parts' = Append(parts,
                     apc(FrameMeta(emitFlags, formatCode, i, Len(chunks)),
                         chunks[i + 1]))
  /\ writeRaw(parts'[Len(parts')])
  /\ i' = i + 1
  /\ UNCHANGED <<pc, args, flags, helpShown, failure, runLocals, emitFlags,
                 chunks>>

\* emitTransmitDisplay, lines 217-244: one iteration of the framing loop
FrameStep ==
  /\ pc = "frame"
  /\ i < Len(chunks)
  /\ parts' = Append(parts,
                     apc(FrameMeta(emitFlags, formatCode, i, Len(chunks)),
                         chunks[i + 1]))
  /\ i' = i + 1
  /\ UNCHANGED <<pc, args, flags, helpShown, failure, runLocals, emitFlags,
                 chunks, output>>

\* emitTransmitDisplay, line 246
WriteParts ==
  /\ pc = "frame"
  /\ ~(i < Len(chunks))
  /\ writeRaw(Join(parts, <<>>))
  /\ pc' = "done"
  /\ UNCHANGED <<args, flags, helpShown, failure, runLocals, emitLocals>>

Next ==
  \/ Parse
  \/ ShowHelp
  \/ Query
  \/ FileRequired
  \/ ReadFile
  \/ NotValidPng
  \/ SendPng
  \/ DecodeFails
  \/ DecodePng
  \/ MissingDims
  \/ SendRaw
  \/ ChunkStep
  \/ ChunkDone
  \/ FrameStep
  \/ WriteParts

Spec == Init /\ [][Next]_vars

\* ------------------------------------------------ reading the output back
APC_PREFIX == <<ESC, "_", "G">>

APC_SUFFIX == <<ESC, "\\">>

\* s has pat at 0-based position k
MatchAt(s, pat, k) ==
  \A m \in 1..Len(pat) : s[k + m] = pat[m]

\* String.prototype.indexOf(pat): the first 0-based position of pat, or -1
IndexOf(s, pat) ==
  LET last == Len(s) - Len(pat)
  IN IF \E k \in 0..last : MatchAt(s, pat, k)
     THEN CHOOSE k \in 0..last :
            /\ MatchAt(s, pat, k)
            /\ \A m \in 0..(k - 1) : ~MatchAt(s, pat, m)
     ELSE -1

\* String.prototype.split(sep) for a one-character separator
RECURSIVE Split(_, _)
Split(s, sep) ==
  LET at == IndexOf(s, <<sep>>)
  IN IF at = -1 THEN <<s>>
     ELSE <<SubSeq(s, 1, at)>> \o Split(SubSeq(s, at + 2, Len(s)), sep)

\* splitApcs: cut a buffer of concatenated APC sequences after every ESC \
RECURSIVE splitApcs(_)
splitApcs(raw) ==
  IF Len(raw) = 0 THEN <<>>
  ELSE LET endIdx == IndexOf(raw, APC_SUFFIX)
       IN IF endIdx = -1 THEN <<>>
          ELSE <<SubSeq(raw, 1, endIdx + Len(APC_SUFFIX))>>
               \o splitApcs(SubSeq(raw, endIdx + Len(APC_SUFFIX) + 1, Len(raw)))

\* one metadata entry, cut at its first "="
ParseEntry(entry) ==
  LET equalsIndex == IndexOf(entry, <<"=">>)
  IN [key |-> IF equalsIndex = -1 THEN entry ELSE SubSeq(entry, 1, equalsIndex),
      value |-> IF equalsIndex = -1 THEN <<>>
                ELSE SubSeq(entry, equalsIndex + 2, Len(entry))]

\* parseApc: the metadata entries of one frame, in order, and its payload;
\* ok is FALSE where parseApc throws
parseApc(line) ==
  LET ok == /\ Len(line) >= Len(APC_PREFIX) + Len(APC_SUFFIX)
            /\ SubSeq(line, 1, Len(APC_PREFIX)) = APC_PREFIX
            /\ SubSeq(line, Len(line) - Len(APC_SUFFIX) + 1, Len(line)) = APC_SUFFIX
      content == IF ok
                 THEN SubSeq(line, Len(APC_PREFIX) + 1, Len(line) - Len(APC_SUFFIX))
                 ELSE <<>>
      separatorIndex == IndexOf(content, <<";">>)
      metaPart == IF separatorIndex = -1 THEN content
                  ELSE SubSeq(content, 1, separatorIndex)
      payload == IF separatorIndex = -1 THEN <<>>
                 ELSE SubSeq(content, separatorIndex + 2, Len(content))
      entries == IF Len(metaPart) > 0 THEN Split(metaPart, ",") ELSE <<>>
  IN [ok |-> ok,
      meta |-> [k \in 1..Len(entries) |-> ParseEntry(entries[k])],
      payload |-> payload]

\* meta.get(key): the value set last for the key, None when it has none
MetaGet(parsed, key) ==
  LET at == {k \in 1..Len(parsed.meta) : parsed.meta[k].key = key}
  IN IF at = {} THEN None
     ELSE Some(parsed.meta[CHOOSE k \in at : \A m \in at : m <= k].value)

\* rawOutput.flatMap(splitApcs) of runImageKitty, each frame parsed
RECURSIVE FlatMapSplit(_)
FlatMapSplit(out) ==
  IF out = <<>> THEN <<>> ELSE splitApcs(out[1]) \o FlatMapSplit(Tail(out))

\* output[0] of runImageKitty: the first frame written, parsed
FirstFrame ==
  LET endIdx == IndexOf(output[1], APC_SUFFIX)
  IN parseApc(SubSeq(output[1], 1, endIdx + Len(APC_SUFFIX)))

EmittedFrames ==
  LET lines == FlatMapSplit(output)
  IN [k \in 1..Len(lines) |-> parseApc(lines[k])]

\* output.map((o) => parseApc(o).payload).join("")
CombinedPayload(frames) ==
  Flatten([k \in 1..Len(frames) |-> frames[k].payload])

B64Index(ch) == CHOOSE k \in 0..63 : B64Char(k) = ch

\* Buffer.from(text, "base64"): decoding stops at the first "="
RECURSIVE DecodeGroups(_)
DecodeGroups(idx) ==
  IF Len(idx) < 2 THEN <<>>
  ELSE IF Len(idx) = 2 THEN << idx[1] * 4 + (idx[2] \div 16) >>
  ELSE IF Len(idx) = 3 THEN
    << idx[1] * 4 + (idx[2] \div 16), (idx[2] % 16) * 16 + (idx[3] \div 4) >>
  ELSE
    << idx[1] * 4 + (idx[2] \div 16),
       (idx[2] % 16) * 16 + (idx[3] \div 4),
       (idx[3] % 4) * 64 + idx[4] >>
    \o DecodeGroups(SubSeq(idx, 5, Len(idx)))

FromBase64(text) ==
  LET pad == IndexOf(text, <<"=">>)
      body == IF pad = -1 THEN text ELSE SubSeq(text, 1, pad)
  IN DecodeGroups([k \in 1..Len(body) |-> B64Index(body[k])])

\* ------------------------------------------------------------ properties
\* a transmit-display invocation has returned from emitTransmitDisplay
TransmitDone == pc = "done" /\ ~helpShown /\ action /= "query"

\* the file was read and the format branch of run was taken
Resolved ==
  \/ pc \in {"chunk", "frame"}
  \/ TransmitDone
  \/ pc = "failed"
     /\ failure /= Some("File argument is required for transmit-display action")

\* the buffer handed to Buffer.from(...).toString("base64")
BytesSent ==
  IF flags.format /= "png" /\ fileIsPng THEN pixelData ELSE fileBytes

\* the first 8 bytes are the PNG signature
HasPngSignature(bytes) ==
  /\ Len(bytes) >= 8
  /\ SubSeq(bytes, 1, 8) = <<137, 80, 78, 71, 13, 10, 26, 10>>

\* the keys of a parsed frame, in order
MetaKeys(frame) == [k \in 1..Len(frame.meta) |-> frame.meta[k].key]

\* the chunk size the caller configured, 4096 when none
ConfiguredChunkSize ==
  IF IsDefined(flags.chunkSize) THEN Val(flags.chunkSize) ELSE 4096

\* C1: once a transmission has been written, the payloads of the emitted
\* frames, concatenated in emission order, are exactly the base64 text of
\* the bytes sent, for every input and every positive chunk size.
C1_PayloadsReproduceBase64 ==
  (TransmitDone /\ ConfiguredChunkSize >= 1) =>
    LET frames == EmittedFrames
    IN /\ \A k \in 1..Len(frames) : frames[k].ok
       /\ CombinedPayload(frames) = ToBase64(BytesSent)

\* C1 witness: a transmission of at least three frames whose last payload is
\* shorter than the chunk size
C1_Witness ==
  /\ TransmitDone
  /\ LET frames == EmittedFrames
     IN /\ Len(frames) >= 3
        /\ Len(frames[Len(frames)].payload) < ConfiguredChunkSize
        /\ CombinedPayload(frames) = ToBase64(BytesSent)

\* C2: every frame of a transmission carries exactly one continuation key m,
\* whose value is 1 on every frame followed by another frame and 0 on the
\* final frame; so a single frame has m=0 and nothing follows an m=0 frame.
C2_ContinuationKey ==
  TransmitDone =>
    LET frames == EmittedFrames
    IN \A k \in 1..Len(frames) :
         LET ms == {e \in 1..Len(frames[k].meta) : frames[k].meta[e].key = <<"m">>}
         IN /\ Cardinality(ms) = 1
            /\ MetaGet(frames[k], <<"m">>) =
                 Some(IF k < Len(frames) THEN <<"1">> ELSE <<"0">>)

\* C2 witness: a transmission of at least three frames, the last one m=0
C2_Witness ==
  /\ TransmitDone
  /\ LET frames == EmittedFrames
     IN /\ Len(frames) >= 3
        /\ MetaGet(frames[1], <<"m">>) = Some(<<"1">>)
        /\ MetaGet(frames[Len(frames)], <<"m">>) = Some(<<"0">>)

\* the keys that only the first frame may carry
DisplayKeys ==
  {<<"a">>, <<"f">>, <<"s">>, <<"v">>, <<"c">>, <<"r">>, <<"i">>, <<"q">>,
   <<"C">>, <<"x">>, <<"y">>, <<"w">>, <<"h">>, <<"X">>, <<"Y">>}

\* C3: the first frame of a transmission carries the display metadata (a=T,
\* f=<code> and the optional display keys) and every later frame has a
\* metadata list that is the continuation key m alone.
C3_DisplayMetaOnFirstOnly ==
  TransmitDone =>
    LET frames == EmittedFrames
    IN \A k \in 1..Len(frames) :
         IF k = 1
         THEN /\ MetaGet(frames[k], <<"a">>) = Some(<<"T">>)
              /\ MetaGet(frames[k], <<"f">>) = Some(NumToStr(formatCode))
              /\ \A e \in 1..Len(frames[k].meta) :
                   frames[k].meta[e].key \in DisplayKeys \cup {<<"m">>}
         ELSE MetaKeys(frames[k]) = << <<"m">> >>

\* C3 witness: a transmission of several frames with every display option
\* given, the first frame carrying them
C3_Witness ==
  /\ TransmitDone
  /\ IsDefined(emitFlags.columns)
  /\ IsDefined(emitFlags.offsetY)
  /\ LET frames == EmittedFrames
     IN /\ Len(frames) >= 2
        /\ \A key \in DisplayKeys : IsDefined(MetaGet(frames[1], key))
        /\ MetaKeys(frames[2]) = << <<"m">> >>

\* C4: a transmit-display invocation writes nothing until it has succeeded:
\* a rejected invocation has called writeRaw zero times, an invocation still
\* running has written nothing, and a finished one has called writeRaw exactly
\* once with one frame per chunk, in chunk order.
C4_AtomicWrite ==
  /\ pc = "failed" => output = <<>>
  /\ pc \in {"parsed", "resolve", "chunk", "frame"} => output = <<>>
  /\ TransmitDone =>
       LET frames == EmittedFrames
       IN /\ Len(output) = 1
          /\ Len(frames) = Len(chunks)
          /\ \A k \in 1..Len(chunks) : frames[k].payload = chunks[k]

\* C4 witness: the framing loop has built some but not all frames of a
\* transmission and nothing has been written
C4_Witness ==
  /\ pc = "frame"
  /\ Len(parts) >= 1
  /\ Len(parts) < Len(chunks)
  /\ output = <<>>

\* a first frame has been written
HasFirstFrame ==
  /\ output /= <<>>
  /\ IndexOf(output[1], APC_SUFFIX) /= -1
  /\ FirstFrame.ok

\* C5: with format png, a file that has the PNG signature is sent verbatim
\* with f=100, and a file that lacks it is rejected with "Input file is not a
\* valid PNG", nothing written, whether or not width and height are given.
C5_PngPassthrough ==
  (Resolved /\ flags.format = "png") =>
    IF HasPngSignature(fileBytes)
    THEN /\ failure = None
         /\ FromBase64(base64) = fileBytes
         /\ TransmitDone =>
              /\ HasFirstFrame
              /\ MetaGet(FirstFrame, <<"f">>) = Some(<<"1", "0", "0">>)
    ELSE /\ pc = "failed"
         /\ failure = Some("Input file is not a valid PNG")
         /\ output = <<>>

\* C5 witness: a file without the signature is rejected although width and
\* height are both given
C5_Witness ==
  /\ pc = "failed"
  /\ flags.format = "png"
  /\ ~HasPngSignature(fileBytes)
  /\ Len(fileBytes) > 0
  /\ IsDefined(flags.width)
  /\ IsDefined(flags.height)
  /\ failure = Some("Input file is not a valid PNG")

\* C6: with format rgb or rgba and a file without the PNG signature, the
\* invocation is rejected with the missing-dimensions error exactly when
\* width or height is absent; with both given the file is sent verbatim and
\* the first frame carries s=<width>, v=<height> as the caller gave them.
C6_RawNeedsDimensions ==
  (Resolved /\ flags.format \in {"rgb", "rgba"} /\ ~HasPngSignature(fileBytes)) =>
    /\ (failure = Some("--width and --height are required for raw rgb/rgba input files"))
         <=> (~IsDefined(flags.width) \/ ~IsDefined(flags.height))
    /\ IsDefined(failure) => (pc = "failed" /\ output = <<>>)
    /\ ~IsDefined(failure) => FromBase64(base64) = fileBytes
    /\ (TransmitDone /\ Len(fileBytes) > 0) =>
         /\ HasFirstFrame
         /\ MetaGet(FirstFrame, <<"s">>) = Some(NumToStr(Val(flags.width)))
         /\ MetaGet(FirstFrame, <<"v">>) = Some(NumToStr(Val(flags.height)))

\* C6 witness: a raw file sent with width 2 and height 1
C6_Witness ==
  /\ TransmitDone
  /\ flags.format = "rgb"
  /\ ~HasPngSignature(fileBytes)
  /\ Len(fileBytes) = 3
  /\ flags.width = Some(2)
  /\ flags.height = Some(1)
  /\ HasFirstFrame
  /\ MetaGet(FirstFrame, <<"s">>) = Some(<<"2">>)
  /\ MetaGet(FirstFrame, <<"v">>) = Some(<<"1">>)

\* C7: with format rgb or rgba and a file that has the PNG signature, s= and
\* v= of the first frame are the decoded width and height whatever the caller
\* supplied, and a missing width or height is not an error.
C7_DecodedDimensionsOverride ==
  (Resolved /\ flags.format \in {"rgb", "rgba"} /\ HasPngSignature(fileBytes)) =>
    /\ failure \in {None, Some("DecodeError")}
    /\ TransmitDone =>
         /\ HasFirstFrame
         /\ MetaGet(FirstFrame, <<"s">>) = Some(NumToStr(decoded.width))
         /\ MetaGet(FirstFrame, <<"v">>) = Some(NumToStr(decoded.height))

\* C7 witness: the caller gave width 2 and no height, the image decoded to
\* width 1, and the first frame says s=1
C7_Witness ==
  /\ TransmitDone
  /\ flags.format = "rgba"
  /\ HasPngSignature(fileBytes)
  /\ flags.width = Some(2)
  /\ ~IsDefined(flags.height)
  /\ decoded.width = 1
  /\ decoded.height = 2
  /\ MetaGet(FirstFrame, <<"s">>) = Some(<<"1">>)
  /\ MetaGet(FirstFrame, <<"v">>) = Some(<<"2">>)

\* C8: base64 text of length L >= 1 and a chunk size n >= 1 (4096 when not
\* configured) give ceil(L/n) slices taken at offsets 0, n, 2n, ...: each but
\* the last has n characters, the last has 1..n, with no realignment.
C8_ChunkBoundaries ==
  ((pc = "frame" \/ TransmitDone) /\ Len(base64) >= 1 /\ ConfiguredChunkSize >= 1) =>
    LET L == Len(base64)
        n == ConfiguredChunkSize
    IN /\ Len(chunks) = (L + n - 1) \div n
       /\ \A k \in 1..Len(chunks) :
            /\ chunks[k] = SubSeq(base64, (k - 1) * n + 1, Min(k * n, L))
            /\ k < Len(chunks) => Len(chunks[k]) = n
            /\ k = Len(chunks) => Len(chunks[k]) \in 1..n

\* C8 witness: chunk size 3 cuts an 8-character text into 3, 3 and 2
\* characters, off the multiples of 4
C8_Witness ==
  /\ pc = "frame"
  /\ ConfiguredChunkSize = 3
  /\ Len(base64) = 8
  /\ Len(chunks) = 3
  /\ Len(chunks[1]) = 3
  /\ Len(chunks[3]) = 2

\* C9: when the bytes to send are empty the transmission emits no frame: the
\* one write is the empty string, not a frame with empty payload and m=0.
C9_EmptyPayloadNoFrame ==
  (TransmitDone /\ Len(BytesSent) = 0) =>
    /\ base64 = <<>>
    /\ FlatMapSplit(output) = <<>>
    /\ \A k \in 1..Len(output) : output[k] = <<>>

\* C9 witness: an empty raw file with both dimensions given has been sent
C9_Witness ==
  /\ TransmitDone
  /\ fileBytes = <<>>
  /\ flags.format = "rgb"
  /\ failure = None
  /\ Len(output) = 1

\* C10: the query action makes one write of one APC frame a=q,i=<imageId or
\* 31>[,q=<quiet>] with empty payload, reads no file and does not depend on
\* format, width, height or chunk size.
C10_QueryFrame ==
  (pc = "done" /\ ~helpShown /\ action = "query") =>
    /\ Len(output) = 1
    /\ output[1] =
         <<ESC, "_", "G", "a", "=", "q", ",", "i", "=">>
         \o (IF IsDefined(flags.imageId) THEN NumToStr(Val(flags.imageId))
             ELSE <<"3", "1">>)
         \o (IF IsDefined(flags.quiet) THEN <<",", "q", "=", Val(flags.quiet)>>
             ELSE <<>>)
         \o <<";", ESC, "\\">>
    /\ fileBytes = <<>>
    /\ base64 = <<>>
    /\ chunks = <<>>

\* C10 witness: a query without file and without image id, with a quiet
\* level, under format rgb and a configured chunk size
C10_Witness ==
  /\ pc = "done"
  /\ action = "query"
  /\ ~IsDefined(args.file)
  /\ ~flags.demo
  /\ ~IsDefined(flags.imageId)
  /\ flags.quiet = Some("1")
  /\ flags.format = "rgb"
  /\ IsDefined(flags.chunkSize)
  /\ Len(output) = 1
  /\ Len(FlatMapSplit(output)) = 1

\* ------------------------------------------- the first frame's metadata
\* every combination of display options given or absent
EveryDisplayChoice ==
  [columns : OptOf({40}), rows : OptOf({20}), imageId : OptOf({0}),
   quiet : OptOf({"2"}), noMove : BOOLEAN, srcX : OptOf({0}),
   srcY : OptOf({1}), srcWidth : OptOf({2}), srcHeight : OptOf({3}),
   offsetX : OptOf({4}), offsetY : OptOf({6})]

\* flags of a --demo run in format png, every display option given or not
DemoPngFlagChoices ==
  {[demo |-> TRUE, action |-> None, format |-> "png", chunkSize |-> None,
    width |-> wh[1], height |-> wh[2], placementId |-> None] @@ disp :
     wh \in OptOf({2}) \X OptOf({1}), disp \in EveryDisplayChoice}

\* flags of a --demo run in every format, with and without a chunk size and
\* a placement id, the display options all absent or all given
DemoFormatFlagChoices ==
  {[demo |-> TRUE, action |-> None, format |-> fmt, chunkSize |-> cs,
    width |-> None, height |-> None, placementId |-> pid] @@ disp :
     fmt \in {"png", "rgb", "rgba"}, cs \in OptOf({MaxChunk}),
     pid \in OptOf({7}), disp \in {NoDisplay, AllDisplay}}

\* const { args, flags } = await this.parse(ImageKitty), for a --demo run
ParseDemo ==
  /\ pc = "start"
  /\ args' = [file |-> None]
  /\ \E f \in DemoPngFlagChoices \cup DemoFormatFlagChoices : flags' = f
  /\ pc' = "parsed"
  /\ UNCHANGED <<helpShown, failure, runLocals, emitLocals, output>>

NextMeta ==
  \/ ParseDemo
  \/ ReadFile
  \/ SendPng
  \/ DecodeFails
  \/ DecodePng
  \/ ChunkStep
  \/ ChunkDone
  \/ FrameStep
  \/ WriteParts

SpecMeta == Init /\ [][NextMeta]_vars

\* the order in which keys may appear in a first frame
FirstFrameKeyOrder ==
  << <<"a">>, <<"f">>, <<"s">>, <<"v">>, <<"c">>, <<"r">>, <<"i">>, <<"q">>,
     <<"C">>, <<"x">>, <<"y">>, <<"w">>, <<"h">>, <<"X">>, <<"Y">>, <<"m">> >>

KeyRank(key) == CHOOSE n \in 1..Len(FirstFrameKeyOrder) : FirstFrameKeyOrder[n] = key

\* the width and height the invocation resolved: decoded for rgb/rgba from a
\* PNG, the caller's otherwise
ResolvedWidth ==
  IF flags.format /= "png" /\ HasPngSignature(fileBytes)
  THEN Some(decoded.width) ELSE flags.width

ResolvedHeight ==
  IF flags.format /= "png" /\ HasPngSignature(fileBytes)
  THEN Some(decoded.height) ELSE flags.height

\* the frame has the key exactly when the numeric option is given, with the
\* option's value in decimal
KeyIffGiven(frame, key, o) ==
  MetaGet(frame, key) = (IF IsDefined(o) THEN Some(NumToStr(Val(o))) ELSE None)

\* C11: the keys of the first frame appear in the order a, f, s, v, c, r, i,
\* q, C, x, y, w, h, X, Y, m without repetition; a=T, f is 100/24/32 for
\* png/rgb/rgba and m are always there; every optional key is there exactly
\* when its option is given (0 counts as given), C=1 exactly when noMove.
C11_FirstFrameKeys ==
  TransmitDone =>
    /\ HasFirstFrame
    /\ LET frame == FirstFrame
           keys == MetaKeys(frame)
       IN /\ \A k \in 1..Len(keys) :
               \E n \in 1..Len(FirstFrameKeyOrder) : FirstFrameKeyOrder[n] = keys[k]
          /\ \A j, k \in 1..Len(keys) : j < k => KeyRank(keys[j]) < KeyRank(keys[k])
          /\ keys[1] = <<"a">>
          /\ keys[2] = <<"f">>
          /\ keys[Len(keys)] = <<"m">>
          /\ MetaGet(frame, <<"a">>) = Some(<<"T">>)
          /\ MetaGet(frame, <<"f">>) =
               Some(CASE flags.format = "png" -> <<"1", "0", "0">>
                      [] flags.format = "rgb" -> <<"2", "4">>
                      [] flags.format = "rgba" -> <<"3", "2">>)
          /\ KeyIffGiven(frame, <<"s">>, ResolvedWidth)
          /\ KeyIffGiven(frame, <<"v">>, ResolvedHeight)
          /\ KeyIffGiven(frame, <<"c">>, flags.columns)
          /\ KeyIffGiven(frame, <<"r">>, flags.rows)
          /\ KeyIffGiven(frame, <<"i">>, flags.imageId)
          /\ MetaGet(frame, <<"q">>) =
               (IF IsDefined(flags.quiet) THEN Some(<<Val(flags.quiet)>>) ELSE None)
          /\ MetaGet(frame, <<"C">>) = (IF flags.noMove THEN Some(<<"1">>) ELSE None)
          /\ KeyIffGiven(frame, <<"x">>, flags.srcX)
          /\ KeyIffGiven(frame, <<"y">>, flags.srcY)
          /\ KeyIffGiven(frame, <<"w">>, flags.srcWidth)
          /\ KeyIffGiven(frame, <<"h">>, flags.srcHeight)
          /\ KeyIffGiven(frame, <<"X">>, flags.offsetX)
          /\ KeyIffGiven(frame, <<"Y">>, flags.offsetY)

\* C11 witness: image id 0 and source x 0 are given, columns and the no-move
\* flag are not; the first frame is a=T,f=100,v=1,i=0,x=0,h=3,m=0
C11_Witness ==
  /\ TransmitDone
  /\ flags.format = "png"
  /\ flags.imageId = Some(0)
  /\ flags.srcX = Some(0)
  /\ ~IsDefined(flags.columns)
  /\ ~flags.noMove
  /\ HasFirstFrame
  /\ MetaKeys(FirstFrame) =
       << <<"a">>, <<"f">>, <<"v">>, <<"i">>, <<"x">>, <<"h">>, <<"m">> >>
  /\ MetaGet(FirstFrame, <<"i">>) = Some(<<"0">>)
  /\ MetaGet(FirstFrame, <<"x">>) = Some(<<"0">>)

\* C12: when a placement id is given the first frame carries
\* p=<placementId>, after the image id and before quiet; when it is not given
\* the first frame has no p key.
C12_PlacementKey ==
  (TransmitDone /\ HasFirstFrame) =>
    LET frame == FirstFrame
        keys == MetaKeys(frame)
    IN IF IsDefined(flags.placementId)
       THEN /\ MetaGet(frame, <<"p">>) = Some(NumToStr(Val(flags.placementId)))
            /\ \E n \in 1..Len(keys) :
                 /\ keys[n] = <<"p">>
                 /\ \A j \in 1..Len(keys) :
                      /\ keys[j] = <<"i">> => j < n
                      /\ keys[j] = <<"q">> => n < j
       ELSE MetaGet(frame, <<"p">>) = None

\* channels of a pixel format: 3 for rgb, 4 for rgba
Channels(format) == IF format = "rgb" THEN 3 ELSE 4

\* C13: for every transmission in format rgb or rgba, the bytes sent (the
\* decoded payloads of the emitted frames) have length s * v * channels,
\* where s and v are the values written in the first frame and channels is 3
\* for rgb and 4 for rgba, for decoded PNG input and for raw input alike.
C13_PixelBufferLength ==
  (TransmitDone /\ flags.format \in {"rgb", "rgba"} /\ HasFirstFrame) =>
    LET frames == EmittedFrames
        sent == FromBase64(CombinedPayload(frames))
    IN \E w, h \in CallerDims \cup (0..MaxPixels) :
         /\ MetaGet(frames[1], <<"s">>) = Some(NumToStr(w))
         /\ MetaGet(frames[1], <<"v">>) = Some(NumToStr(h))
         /\ Len(sent) = w * h * Channels(flags.format)

\* --------------------------------------------- the RGBA to RGB strip loop
MaxStripPixels == 2

\* what decodePng with force32 can return: width * height pixels of 4 bytes
RgbaImages ==
  UNION {{[width |-> wh[1], height |-> wh[2], data |-> d] :
            d \in SeqsOfLen(ByteVals, 4 * wh[1] * wh[2])} :
           wh \in {x \in (1..MaxStripPixels) \X (1..MaxStripPixels) :
                     x[1] * x[2] <= MaxStripPixels}}

\* run has decoded a PNG for format rgb and is about to strip the alpha bytes
InitStrip ==
  /\ pc = "strip"
  /\ args = [file |-> Some("path")]
  /\ flags = [demo |-> FALSE, action |-> None, format |-> "rgb",
              chunkSize |-> None, width |-> None, height |-> None] @@ NoDisplay
  /\ helpShown = FALSE
  /\ failure = None
  /\ fileBytes = DemoPng
  /\ fileIsPng = TRUE
  /\ decoded \in RgbaImages
  /\ width = Some(decoded.width)
  /\ height = Some(decoded.height)
  /\ pixelData = <<>>
  /\ base64 = <<>>
  /\ emitFlags = flags
  /\ chunks = <<>>
  /\ i = 0
  /\ parts = <<>>
  /\ output = <<>>

stripFrame == <<args, flags, helpShown, failure, fileBytes, fileIsPng, width,
                height, decoded, base64, emitFlags, chunks, parts, output>>

\* const pixelCount = width * height
pixelCount == Val(width) * Val(height)

\* pixelData = new Uint8Array(pixelCount * 3); let i = 0
StripAlloc ==
  /\ pc = "strip"
  /\ pixelData' = [k \in 1..(pixelCount * 3) |-> 0]
  /\ i' = 0
  /\ pc' = "strip-loop"
  /\ UNCHANGED stripFrame

\* a loop body that reads the source with the stride of the destination
StripStepPacked ==
  /\ pc = "strip-loop"
  /\ i < pixelCount
  /\ pixelData' = [pixelData EXCEPT ![i * 3 + 1] = decoded.data[i * 3 + 1],
                                    ![i * 3 + 2] = decoded.data[i * 3 + 2],
                                    ![i * 3 + 3] = decoded.data[i * 3 + 3]]
  /\ i' = i + 1
  /\ UNCHANGED <<pc, stripFrame>>

\* one iteration of for (let i = 0; i < pixelCount; i++) { ... }
StripStep ==
  /\ pc = "strip-loop"
  /\ i < pixelCount
  /\ pixelData' = [pixelData EXCEPT ![i * 3 + 1] = decoded.data[i * 4 + 1],
                                    ![i * 3 + 2] = decoded.data[i * 4 + 2],
                                    ![i * 3 + 3] = decoded.data[i * 4 + 3]]
  /\ i' = i + 1
  /\ UNCHANGED <<pc, stripFrame>>

\* the loop condition fails
StripDone ==
  /\ pc = "strip-loop"
  /\ ~(i < pixelCount)
  /\ pc' = "stripped"
  /\ UNCHANGED <<pixelData, i, stripFrame>>

NextStrip ==
  \/ StripAlloc
  \/ StripStep
  \/ StripDone

SpecStrip == InitStrip /\ [][NextStrip]_vars

\* the RGBA bytes with the alpha byte of pixel p replaced by alphas[p + 1]
WithAlpha(rgba, alphas) ==
  [k \in 1..Len(rgba) |-> IF k % 4 = 0 THEN alphas[k \div 4] ELSE rgba[k]]

\* C14: stripping a decoded RGBA buffer of pixelCount = width * height pixels
\* gives exactly pixelCount * 3 bytes; for every pixel p in 0..pixelCount-1
\* the output bytes 3p, 3p+1, 3p+2 are the input bytes 4p, 4p+1, 4p+2; and
\* whatever the alpha bytes are, the output is the same.
C14_StripAlpha ==
  pc = "stripped" =>
    /\ Len(pixelData) = decoded.width * decoded.height * 3
    /\ \A p \in 0..(decoded.width * decoded.height - 1) :
         /\ pixelData[3 * p + 1] = decoded.data[4 * p + 1]
         /\ pixelData[3 * p + 2] = decoded.data[4 * p + 2]
         /\ pixelData[3 * p + 3] = decoded.data[4 * p + 3]
    /\ pixelData = PixelDataOf("rgb", decoded)
    /\ \A alphas \in SeqsOfLen(ByteVals, decoded.width * decoded.height) :
         PixelDataOf("rgb", [decoded EXCEPT !.data = WithAlpha(decoded.data, alphas)])
           = pixelData

\* C14 witness: two pixels (255,0,255,a=0) and (0,255,0,a=255) were stripped
\* to 255,0,255,0,255,0
C14_Witness ==
  /\ pc = "stripped"
  /\ decoded.data = <<255, 0, 255, 0, 0, 255, 0, 255>>
  /\ pixelData = <<255, 0, 255, 0, 255, 0>>

\* --------------------------------------------------- the signature sniff
MaxTail == 2

\* a byte value that occurs nowhere in the signature
WrongByte == 0

\* eight bytes, each the signature's byte or a wrong one
SignatureLikeHeads ==
  {[k \in 1..8 |-> IF k \in wrong THEN WrongByte ELSE PNG_SIGNATURE[k]] :
     wrong \in SUBSET (1..8)}

\* buffers to sniff: heads cut short, and heads followed by more bytes
SniffedBuffers ==
  {SubSeq(h, 1, n) : h \in SignatureLikeHeads, n \in 0..8}
    \cup {h \o tail : h \in SignatureLikeHeads, tail \in SeqsUpTo(ByteVals, MaxTail)}

\* run has read the file and is about to sniff it
InitSniff ==
  /\ pc = "sniff"
  /\ args = [file |-> Some("path")]
  /\ flags = [demo |-> FALSE, action |-> None, format |-> "png",
              chunkSize |-> None, width |-> None, height |-> None] @@ NoDisplay
  /\ helpShown = FALSE
  /\ failure = None
  /\ fileBytes \in SniffedBuffers
  /\ fileIsPng = FALSE
  /\ width = None
  /\ height = None
  /\ decoded = [width |-> 0, height |-> 0, data |-> <<>>]
  /\ pixelData = <<>>
  /\ base64 = <<>>
  /\ emitFlags = flags
  /\ chunks = <<>>
  /\ i = 0
  /\ parts = <<>>
  /\ output = <<>>

\* const fileIsPng = isPng(fileBytes)
Sniff ==
  /\ pc = "sniff"
  /\ fileIsPng' = isPng(fileBytes)
  /\ pc' = "sniffed"
  /\ UNCHANGED <<args, flags, helpShown, failure, fileBytes, width, height,
                 decoded, pixelData, base64, emitLocals, output>>

NextSniff ==
  \/ Sniff

SpecSniff == InitSniff /\ [][NextSniff]_vars

\* C15: isPng is true exactly when the buffer has at least 8 bytes and its
\* first 8 bytes are 0x89 0x50 0x4E 0x47 0x0D 0x0A 0x1A 0x0A in this order;
\* it is false for every shorter buffer and for a mismatch at any of the 8
\* positions, whatever follows position 8.
C15_IsPngIffSignature ==
  pc = "sniffed" =>
    /\ fileIsPng <=>
         /\ Len(fileBytes) >= 8
         /\ fileBytes[1] = 137 /\ fileBytes[2] = 80
         /\ fileBytes[3] = 78 /\ fileBytes[4] = 71
         /\ fileBytes[5] = 13 /\ fileBytes[6] = 10
         /\ fileBytes[7] = 26 /\ fileBytes[8] = 10
    /\ Len(fileBytes) < 8 => ~fileIsPng
    /\ \A tail \in SeqsUpTo(ByteVals, MaxTail) :
         Len(fileBytes) >= 8 => isPng(SubSeq(fileBytes, 1, 8) \o tail) = fileIsPng

\* C15 witness: a buffer that differs from the signature in its eighth byte
\* only, followed by two more bytes, was found not to be a PNG
C15_Witness ==
  /\ pc = "sniffed"
  /\ fileBytes = <<137, 80, 78, 71, 13, 10, 26, 0, 255, 255>>
  /\ ~fileIsPng

\* ------------------------------------------------------ the escape framer
MaxMetaEntries == 2

MaxPayloadLen == 2

\* metadata entries a caller may pass, the empty string among them
MetaEntries ==
  {<<>>, <<"a", "=", "T">>, <<"i", "=", "3", "1">>, <<"p", "=", "t">>}

\* payload characters, the separators and the terminator's characters among
\* them
PayloadChars == {"A", ";", ",", ":", ESC, "\\"}

\* a caller has a metadata list (kept in parts) and a payload (kept in base64)
InitFramer ==
  /\ pc = "framer"
  /\ args = [file |-> None]
  /\ flags = [demo |-> FALSE, action |-> None, format |-> "png",
              chunkSize |-> None, width |-> None, height |-> None] @@ NoDisplay
  /\ helpShown = FALSE
  /\ failure = None
  /\ fileBytes = <<>>
  /\ fileIsPng = FALSE
  /\ width = None
  /\ height = None
  /\ decoded = [width |-> 0, height |-> 0, data |-> <<>>]
  /\ pixelData = <<>>
  /\ base64 \in SeqsUpTo(PayloadChars, MaxPayloadLen)
  /\ emitFlags = flags
  /\ chunks = <<>>
  /\ i = 0
  /\ parts \in SeqsUpTo(MetaEntries, MaxMetaEntries)
  /\ output = <<>>

framerFrame == <<args, flags, helpShown, failure, runLocals, emitLocals>>

\* apc(metadata, payload)
CallApc ==
  /\ pc = "framer"
  /\ output' = Append(output, apc(parts, base64))
  /\ pc' = "apc-returned"
  /\ UNCHANGED framerFrame

\* osc(metadata, payload)
CallOsc ==
  /\ pc = "apc-returned"
  /\ output' = Append(output, osc(parts, base64))
  /\ pc' = "osc-returned"
  /\ UNCHANGED framerFrame

NextFramer ==
  \/ CallApc
  \/ CallOsc

SpecFramer == InitFramer /\ [][NextFramer]_vars

\* the entries one after the other, sep before every entry but the first
JoinedBy(entries, sep) ==
  Flatten([k \in 1..Len(entries) |->
             IF k = 1 THEN entries[k] ELSE <<sep>> \o entries[k]])

\* frame is intro, then the entries joined by sep, then ';', then the
\* payload, then ESC \
WellFramed(frame, intro, sep, entries, payload) ==
  LET n == Len(frame)
      joined == JoinedBy(entries, sep)
  IN /\ n = Len(intro) + Len(joined) + 1 + Len(payload) + 2
     /\ SubSeq(frame, 1, Len(intro)) = intro
     /\ SubSeq(frame, Len(intro) + 1, Len(intro) + Len(joined)) = joined
     /\ frame[Len(intro) + Len(joined) + 1] = ";"
     /\ SubSeq(frame, n - 1 - Len(payload), n - 2) = payload
     /\ frame[n - 1] = ESC
     /\ frame[n] = "\\"
     /\ entries = <<>> => frame[Len(intro) + 1] = ";"
     /\ payload = <<>> => frame[n - 2] = ";"

\* C16: apc(metadata, payload) is ESC _G, the metadata joined with ',', a
\* ';', the payload and ESC \; osc(metadata, payload) is ESC ]99; , the
\* metadata joined with ':', a ';', the payload and ESC \. With no metadata
\* the ';' directly follows the introducer, with an empty payload the
\* terminator directly follows the ';', the payload is copied as it is, and
\* the result is the same whenever the two arguments are.
C16_FramerFormat ==
  /\ pc \in {"apc-returned", "osc-returned"} =>
       /\ WellFramed(output[1], <<ESC, "_", "G">>, ",", parts, base64)
       /\ output[1] = apc(parts, base64)
  /\ pc = "osc-returned" =>
       /\ WellFramed(output[2], <<ESC, "]", "9", "9", ";">>, ":", parts, base64)
       /\ output[2] = osc(parts, base64)

\* C16 witness: both framers were called with no metadata and the payload
\* ";" followed by ESC
C16_Witness ==
  /\ pc = "osc-returned"
  /\ parts = <<>>
  /\ base64 = <<";", ESC>>
  /\ output = << <<ESC, "_", "G", ";", ";", ESC, ESC, "\\">>,
                 <<ESC, "]", "9", "9", ";", ";", ";", ESC, ESC, "\\">> >>

\* ------------------------------- transmissions interleaved on one sink
\* Here pc, base64, emitFlags, chunks, i and parts hold one value for each
\* invocation of emitTransmitDisplay; output is the one sink they share.
Invocations == {1, 2}

MaxTriples == 2

\* the byte every pixel of invocation t's image is made of, so that the
\* payload of a frame tells which invocation produced it
ByteOf(t) == IF t = 1 THEN 0 ELSE 255

\* the base64 texts invocation t may be asked to send
TextsOf(t) ==
  {ToBase64([k \in 1..(3 * n) |-> ByteOf(t)]) : n \in 1..MaxTriples}

\* the flags of invocation t: image id t, some chunk size
ConcFlags(t, cs) ==
  [demo |-> FALSE, action |-> None, format |-> "rgb", chunkSize |-> Some(cs),
   width |-> Some(1), height |-> Some(1)]
    @@ [NoDisplay EXCEPT !.imageId = Some(t)]

\* every invocation has entered emitTransmitDisplay
InitConc ==
  /\ pc = [t \in Invocations |-> "chunk"]
  /\ args = [file |-> Some("path")]
  /\ flags = [demo |-> FALSE, action |-> None, format |-> "rgb",
              chunkSize |-> None, width |-> None, height |-> None] @@ NoDisplay
  /\ helpShown = FALSE
  /\ failure = None
  /\ fileBytes = <<>>
  /\ fileIsPng = FALSE
  /\ width = None
  /\ height = None
  /\ decoded = [width |-> 0, height |-> 0, data |-> <<>>]
  /\ pixelData = <<>>
  /\ base64 \in {b \in [Invocations -> UNION {TextsOf(t) : t \in Invocations}] :
                   \A t \in Invocations : b[t] \in TextsOf(t)}
  /\ emitFlags \in {[t \in Invocations |-> ConcFlags(t, cs[t])] :
                      cs \in [Invocations -> 2..MaxChunk]}
  /\ chunks = [t \in Invocations |-> <<>>]
  /\ i = [t \in Invocations |-> 0]
  /\ parts = [t \in Invocations |-> <<>>]
  /\ output = <<>>

concFrame == <<args, flags, helpShown, failure, runLocals>>

\* invocation t: one iteration of the chunk loop
ConcChunkStep(t) ==
  /\ pc[t] = "chunk"
  /\ i[t] < Len(base64[t])
  /\ chunks' = [chunks EXCEPT
                  ![t] = Append(@, ChunkAt(base64[t], i[t], Val(emitFlags[t].chunkSize)))]
  /\ i' = [i EXCEPT ![t] = @ + Val(emitFlags[t].chunkSize)]
  /\ UNCHANGED <<pc, concFrame, emitFlags, parts, output>>

\* invocation t: the chunk loop ends
ConcChunkDone(t) ==
  /\ pc[t] = "chunk"
  /\ ~(i[t] < Len(base64[t]))
  /\ i' = [i EXCEPT ![t] = 0]
  /\ pc' = [pc EXCEPT ![t] = "frame"]
  /\ UNCHANGED <<concFrame, emitFlags, chunks, parts, output>>

\* the frame an invocation builds for its chunk number k (0-based)
ConcFrame(t, k) ==
  apc(FrameMeta(emitFlags[t], formatToCode(emitFlags[t].format), k, Len(chunks[t])),
      chunks[t][k + 1])

\* a frame loop that writes every frame to the sink as soon as it is built
ConcFrameStepFlushing(t) ==
  /\ pc[t] = "frame"
  /\ i[t] < Len(chunks[t])
  /\ output' = Append(output, ConcFrame(t, i[t]))
  /\ i' = [i EXCEPT ![t] = @ + 1]
  /\ UNCHANGED <<pc, concFrame, emitFlags, chunks, parts>>

\* invocation t: one iteration of the frame loop
ConcFrameStep(t) ==
  /\ pc[t] = "frame"
  /\ i[t] < Len(chunks[t])
  /\ parts' = [parts EXCEPT ![t] = Append(@, ConcFrame(t, i[t]))]
  /\ i' = [i EXCEPT ![t] = @ + 1]
  /\ UNCHANGED <<pc, concFrame, emitFlags, chunks, output>>

\* invocation t: this.writeRaw(parts.join("")), one atomic write to the sink
ConcWriteParts(t) ==
  /\ pc[t] = "frame"
  /\ ~(i[t] < Len(chunks[t]))
  /\ writeRaw(Join(parts[t], <<>>))
  /\ pc' = [pc EXCEPT ![t] = "done"]
  /\ UNCHANGED <<concFrame, emitLocals>>

NextConc ==
  \/ \E t \in Invocations : ConcChunkStep(t)
  \/ \E t \in Invocations : ConcChunkDone(t)
  \/ \E t \in Invocations : ConcFrameStep(t)
  \/ \E t \in Invocations : ConcWriteParts(t)

SpecConc == InitConc /\ [][NextConc]_vars

\* the frames in the sink's byte stream, in stream order
SinkFrames ==
  LET lines == splitApcs(Flatten(output))
  IN [k \in 1..Len(lines) |-> parseApc(lines[k])]

\* the invocation whose text a frame's payload was cut from
OwnerOf(frame) ==
  CHOOSE t \in Invocations :
    \A k \in 1..Len(frame.payload) : frame.payload[k] = base64[t][1]

\* C17: whatever the interleaving of the invocations' steps, the sink's byte
\* stream holds each transmission's frames as one contiguous block in chunk
\* order: no frame of one transmission lies between two frames of another,
\* and the payloads of a written transmission's frames, in stream order, make
\* up its base64 text.
C17_FramesContiguous ==
  LET frames == SinkFrames
  IN /\ \A a, b, c \in 1..Len(frames) :
          (a < b /\ b < c /\ OwnerOf(frames[a]) = OwnerOf(frames[c]))
            => OwnerOf(frames[b]) = OwnerOf(frames[a])
     /\ \A t \in Invocations :
          LET mine == SelectSeq(frames, LAMBDA f : OwnerOf(f) = t)
          IN pc[t] = "done" =>
               /\ CombinedPayload(mine) = base64[t]
               /\ Len(mine) = Len(chunks[t])
               /\ MetaGet(mine[1], <<"i">>) = Some(NumToStr(t))
               /\ \A k \in 1..Len(mine) :
                    MetaGet(mine[k], <<"m">>) =
                      Some(IF k = Len(mine) THEN <<"0">> ELSE <<"1">>)

\* C17 witness: both invocations cut two chunks and have written, invocation
\* 2 first; the stream holds the two frames of 2 and then the two frames of 1
C17_Witness ==
  /\ \A t \in Invocations : pc[t] = "done" /\ Len(chunks[t]) = 2
  /\ LET frames == SinkFrames
     IN /\ Len(frames) = 4
        /\ OwnerOf(frames[1]) = 2 /\ OwnerOf(frames[2]) = 2
        /\ OwnerOf(frames[3]) = 1 /\ OwnerOf(frames[4]) = 1

\* ------------------------------------------------- the notification command
\* Here args and flags are those of Notification, and output is what
\* this.log received.
MaxParts == 3

\* words a message part may be, the empty string among them
Words == {<<>>, <<"H", "i">>, <<"y", "o">>}

\* args.message: undefined, one string, or an array of strings
MessageChoices ==
  {[kind |-> "undefined", parts |-> <<>>]}
    \cup {[kind |-> "string", parts |-> <<w>>] : w \in Words}
    \cup {[kind |-> "array", parts |-> ws] : ws \in SeqsUpTo(Words, MaxParts)}

\* the flags of Notification; those never given here are left undefined
NotificationFlagChoices ==
  [actions : {None}, close : {None},
   complete : OptOf({<<"0">>, <<"1">>}),
   base64 : OptOf({<<"0">>}),
   app : OptOf({<<"a">>}),
   iconCache : {None},
   identifier : OptOf({<<"n", "1">>}),
   iconName : OptOf({<< <<"x">> >>}),
   occasion : {None},
   payloadType : OptOf({<<>>, <<"i", "c", "o", "n">>}),
   sound : {None}, type : {None}, urgency : {None},
   expire : OptOf({5})]

\* const { args, flags } = await this.parse(Notification)
NotifyParse ==
  /\ pc = "start"
  /\ \E m \in MessageChoices : args' = [message |-> m]
  /\ \E f \in NotificationFlagChoices : flags' = f
  /\ pc' = "notify"
  /\ UNCHANGED <<helpShown, failure, runLocals, emitLocals, output>>

base64Keys == {"f", "n", "s", "t"}

\* the UTF-8 byte of a character of the flag values used here
CharCode(ch) ==
  CASE ch = "a" -> 97
    [] ch = "x" -> 120

\* Buffer.from(value, "utf8").toString("base64")
toBase64(value) == ToBase64([k \in 1..Len(value) |-> CharCode(value[k])])

\* the entry addMeta pushes for a defined scalar value
MetaEntry(key, rawValue) ==
  KeyVal(key, IF key \in base64Keys THEN toBase64(rawValue) ELSE rawValue)

\* addMeta for a string or undefined
addMeta(key, value) ==
  IF ~IsDefined(value) THEN <<>> ELSE <<MetaEntry(key, Val(value))>>

\* addMeta for a string array or undefined: one entry for each item
addMetaEach(key, value) ==
  IF ~IsDefined(value) THEN <<>>
  ELSE [k \in 1..Len(Val(value)) |-> MetaEntry(key, Val(value)[k])]

\* buildMetadata: the flags, overridden by the given keys, as entries in the
\* order a, c, d, e, f, g, i, n, o, p, s, t, u, w
buildMetadata(overrides) ==
  LET meta == overrides @@
        [a |-> flags.actions, c |-> flags.close, d |-> flags.complete,
         e |-> flags.base64, f |-> flags.app, g |-> flags.iconCache,
         i |-> flags.identifier, n |-> flags.iconName, o |-> flags.occasion,
         p |-> flags.payloadType, s |-> flags.sound, t |-> flags.type,
         u |-> flags.urgency,
         w |-> IF IsDefined(flags.expire)
               THEN Some(NumToStr(Val(flags.expire))) ELSE None]
  IN addMeta("a", meta.a) \o addMeta("c", meta.c) \o addMeta("d", meta.d)
     \o addMeta("e", meta.e) \o addMeta("f", meta.f) \o addMeta("g", meta.g)
     \o addMeta("i", meta.i) \o addMetaEach("n", meta.n) \o addMeta("o", meta.o)
     \o addMeta("p", meta.p) \o addMeta("s", meta.s) \o addMetaEach("t", meta.t)
     \o addMeta("u", meta.u) \o addMeta("w", meta.w)

\* buildOsc
buildOsc(metadata, payload) ==
  <<ESC, "]", "9", "9", ";">> \o Join(metadata, <<":">>) \o <<";">> \o payload
    \o <<ESC, "\\">>

\* this.log(message), recorded as the test double records it
log(message) == Append(output, message)

messageParts ==
  IF args.message.kind = "array" THEN args.message.parts
  ELSE IF args.message.kind = "string" /\ args.message.parts[1] /= <<>>
       THEN args.message.parts
       ELSE <<>>

payloadParts == SelectSeq(messageParts, LAMBDA value : Len(value) > 0)

\* if (payloadType): a non-empty string
payloadTypeGiven == IsDefined(flags.payloadType) /\ Val(flags.payloadType) /= <<>>

TitleWord == <<"t", "i", "t", "l", "e">>

BodyWord == <<"b", "o", "d", "y">>

HelloWorld == <<"H", "e", "l", "l", "o", " ", "w", "o", "r", "l", "d">>

notifyFrame == <<args, flags, helpShown, failure, runLocals, emitLocals>>

\* run, lines 141-148
NotifyTyped ==
  /\ pc = "notify"
  /\ payloadTypeGiven
  /\ LET effectiveBase64 ==
           IF Val(flags.payloadType) = <<"i", "c", "o", "n">> /\ ~IsDefined(flags.base64)
           THEN Some(<<"1">>) ELSE flags.base64
         metadata == buildMetadata([p |-> flags.payloadType, e |-> effectiveBase64])
         payload == Join(payloadParts, <<" ">>)
     IN output' = log(buildOsc(metadata, payload))
  /\ pc' = "done"
  /\ UNCHANGED notifyFrame

\* run, lines 150-154
NotifyDefault ==
  /\ pc = "notify"
  /\ ~payloadTypeGiven
  /\ Len(payloadParts) = 0
  /\ output' = log(buildOsc(buildMetadata([p |-> Some(TitleWord)]), HelloWorld))
  /\ pc' = "done"
  /\ UNCHANGED notifyFrame

\* run, lines 156-160
NotifySingle ==
  /\ pc = "notify"
  /\ ~payloadTypeGiven
  /\ Len(payloadParts) = 1
  /\ output' = log(buildOsc(buildMetadata([p |-> Some(TitleWord)]), payloadParts[1]))
  /\ pc' = "done"
  /\ UNCHANGED notifyFrame

\* the title and body branch with one completion default for both frames
NotifyTitleBodyOneDefault ==
  /\ pc = "notify"
  /\ ~payloadTypeGiven
  /\ Len(payloadParts) >= 2
  /\ LET title == payloadParts[1]
         body == Join(Tail(payloadParts), <<" ">>)
         autoComplete == OrElse(flags.complete, <<"0">>)
         titleMeta == buildMetadata([p |-> Some(TitleWord), d |-> Some(autoComplete)])
         bodyMeta == buildMetadata([p |-> Some(BodyWord), d |-> Some(autoComplete)])
     IN output' = Append(log(buildOsc(titleMeta, title)), buildOsc(bodyMeta, body))
  /\ pc' = "done"
  /\ UNCHANGED notifyFrame

\* run, lines 162-169
NotifyTitleBody ==
  /\ pc = "notify"
  /\ ~payloadTypeGiven
  /\ Len(payloadParts) >= 2
  /\ LET title == payloadParts[1]
         body == Join(Tail(payloadParts), <<" ">>)
         autoComplete == OrElse(flags.complete, <<"0">>)
         titleMeta == buildMetadata([p |-> Some(TitleWord), d |-> Some(autoComplete)])
         bodyMeta == buildMetadata([p |-> Some(BodyWord),
                                    d |-> Some(OrElse(flags.complete, <<"1">>))])
     IN output' = Append(log(buildOsc(titleMeta, title)), buildOsc(bodyMeta, body))
  /\ pc' = "done"
  /\ UNCHANGED notifyFrame

NextNotify ==
  \/ NotifyParse
  \/ NotifyTyped
  \/ NotifyDefault
  \/ NotifySingle
  \/ NotifyTitleBody

SpecNotify == Init /\ [][NextNotify]_vars

OSC_PREFIX == <<ESC, "]", "9", "9", ";">>

OSC_SUFFIX == <<ESC, "\\">>

\* parseOsc: the metadata entries of one line, in order, and its payload; ok
\* is FALSE where parseOsc throws
parseOsc(line) ==
  LET ok == /\ Len(line) >= Len(OSC_PREFIX) + Len(OSC_SUFFIX)
            /\ SubSeq(line, 1, Len(OSC_PREFIX)) = OSC_PREFIX
            /\ SubSeq(line, Len(line) - Len(OSC_SUFFIX) + 1, Len(line)) = OSC_SUFFIX
      content == IF ok THEN StrSlice(line, Len(OSC_PREFIX), -Len(OSC_SUFFIX)) ELSE <<>>
      separatorIndex == IndexOf(content, <<";">>)
      metaPart == IF separatorIndex = -1 THEN content
                  ELSE StrSlice(content, 0, separatorIndex)
      payload == IF separatorIndex = -1 THEN <<>>
                 ELSE SubSeq(content, separatorIndex + 2, Len(content))
      entries == IF Len(metaPart) > 0 THEN Split(metaPart, ":") ELSE <<>>
  IN [ok |-> ok,
      meta |-> [k \in 1..Len(entries) |-> ParseEntry(entries[k])],
      payload |-> payload]

\* meta.get(key) ?? []: the values stored for the key, in order
MetaValues(parsed, key) ==
  LET hits == SelectSeq(parsed.meta, LAMBDA e : e.key = key)
  IN [k \in 1..Len(hits) |-> hits[k].value]

\* the message parts that are given and not empty
NonEmptyParts ==
  SelectSeq(args.message.parts, LAMBDA part : part /= <<>>)

\* C18: a notification with no payload type and two or more non-empty
\* message parts logs exactly two OSC lines: first the title (payload the
\* first part, p=title, d the complete flag or 0), then the body (payload the
\* remaining parts joined by single spaces, p=body, d the complete flag or
\* 1); with no or one non-empty part it logs exactly one p=title line, whose
\* payload is the part, or "Hello world" when there is none.
C18_TitleThenBody ==
  (pc = "done" /\ "message" \in DOMAIN args /\ ~payloadTypeGiven) =>
    LET given == NonEmptyParts
        lines == [k \in 1..Len(output) |-> parseOsc(output[k])]
    IN IF Len(given) >= 2
       THEN /\ Len(lines) = 2
            /\ lines[1].ok /\ lines[2].ok
            /\ lines[1].payload = given[1]
            /\ MetaValues(lines[1], <<"p">>) = <<TitleWord>>
            /\ MetaValues(lines[1], <<"d">>) =
                 <<IF IsDefined(flags.complete) THEN Val(flags.complete) ELSE <<"0">> >>
            /\ lines[2].payload = JoinedBy(Tail(given), " ")
            /\ MetaValues(lines[2], <<"p">>) = <<BodyWord>>
            /\ MetaValues(lines[2], <<"d">>) =
                 <<IF IsDefined(flags.complete) THEN Val(flags.complete) ELSE <<"1">> >>
       ELSE /\ Len(lines) = 1
            /\ lines[1].ok
            /\ MetaValues(lines[1], <<"p">>) = <<TitleWord>>
            /\ lines[1].payload = (IF Len(given) = 0 THEN HelloWorld ELSE given[1])

\* C18 witness: the message Hi yo yo without payload type and complete flag
\* was logged as the title Hi with d=0 and the body "yo yo" with d=1
C18_Witness ==
  /\ pc = "done"
  /\ "message" \in DOMAIN args
  /\ args.message = [kind |-> "array",
                     parts |-> << <<"H", "i">>, <<"y", "o">>, <<"y", "o">> >>]
  /\ ~IsDefined(flags.payloadType)
  /\ ~IsDefined(flags.complete)
  /\ Len(output) = 2
  /\ parseOsc(output[1]).payload = <<"H", "i">>
  /\ MetaValues(parseOsc(output[1]), <<"d">>) = << <<"0">> >>
  /\ parseOsc(output[2]).payload = <<"y", "o", " ", "y", "o">>
  /\ MetaValues(parseOsc(output[2]), <<"d">>) = << <<"1">> >>

\* ------------------------------------------- chunk sizes of either sign
\* the lowest chunk size tried is -MaxNegChunk
MaxNegChunk == 2

\* iterations of a chunk loop that does not advance, before the model stops
\* following it
MaxLoopIters == 3

\* flags with a chunk size that is negative, zero or positive
AnySizeFlagChoices ==
  {[demo |-> FALSE, action |-> None, format |-> fmt, chunkSize |-> Some(cs),
    width |-> Some(1), height |-> Some(1)] @@ NoDisplay :
     fmt \in {"png", "rgb"}, cs \in (-MaxNegChunk)..MaxChunk}

\* const { args, flags } = await this.parse(ImageKitty), any chunk size
ParseAnySize ==
  /\ pc = "start"
  /\ args' = [file |-> Some("path")]
  /\ \E f \in AnySizeFlagChoices : flags' = f
  /\ pc' = "parsed"
  /\ UNCHANGED <<helpShown, failure, runLocals, emitLocals, output>>

\* one iteration of the chunk loop; a loop whose index does not advance is
\* followed for MaxLoopIters iterations
ChunkStepCapped ==
  /\ size >= 1 \/ Len(chunks) < MaxLoopIters
  /\ ChunkStep

NextAnySize ==
  \/ ParseAnySize
  \/ ReadFile
  \/ NotValidPng
  \/ SendPng
  \/ DecodeFails
  \/ DecodePng
  \/ SendRaw
  \/ ChunkStepCapped
  \/ ChunkDone
  \/ FrameStep
  \/ WriteParts

\* a running invocation executes its next statement
SpecAnySize == Init /\ [][NextAnySize]_vars /\ WF_vars(NextAnySize)

\* emitTransmitDisplay was called with a chunk size below 1 and a text that
\* is not empty
StuckCase ==
  /\ pc \in {"chunk", "frame", "done"}
  /\ Val(flags.chunkSize) <= 0
  /\ base64 /= <<>>

\* C19: with a chunk size of zero or less and a base64 text that is not
\* empty the chunk loop never ends: its index stays below the text length
\* for ever, the frame loop is never entered and nothing is ever written;
\* with a chunk size of 1 or more every call of emitTransmitDisplay ends with
\* its write.
C19_NonPositiveSizeNeverEnds ==
  /\ [](StuckCase => /\ pc = "chunk"
                     /\ i < Len(base64)
                     /\ i <= 0
                     /\ parts = <<>>
                     /\ output = <<>>)
  /\ (StuckCase ~> [](pc = "chunk"))
  /\ ((pc = "chunk" /\ Val(flags.chunkSize) >= 1) ~> (pc = "done" /\ Len(output) = 1))

\* C19 witness: with chunk size -1 the loop has run MaxLoopIters times, its
\* index has gone below zero and nothing was written
C19_Witness ==
  /\ pc = "chunk"
  /\ flags.chunkSize = Some(-1)
  /\ base64 /= <<>>
  /\ Len(chunks) = MaxLoopIters
  /\ i = -MaxLoopIters
  /\ output = <<>>

\* ------------------------------------------ taking the write apart again
\* the 0-based positions of the write at which ESC \ stands
TerminatorPositions(raw) ==
  {k \in 0..(Len(raw) - Len(APC_SUFFIX)) : MatchAt(raw, APC_SUFFIX, k)}

\* the entries of a parsed frame, written as key=value again
EntriesOf(frame) ==
  [k \in 1..Len(frame.meta) |-> KeyVal(frame.meta[k].key[1], frame.meta[k].value)]

\* C20: the one write of a transmission can be taken apart without
\* ambiguity: ESC \ occurs in it exactly once for each chunk, cutting it
\* after every ESC \ gives exactly as many frames as there are chunks, each
\* the frame that was built for the chunk, and parsing a frame at its first
\* ';' gives back exactly the metadata list and the payload passed to apc.
C20_WriteDecomposes ==
  TransmitDone =>
    /\ Len(output) = 1
    /\ LET raw == output[1]
           lines == splitApcs(raw)
       IN /\ Cardinality(TerminatorPositions(raw)) = Len(chunks)
          /\ Len(lines) = Len(chunks)
          /\ \A k \in 1..Len(lines) :
               LET frame == parseApc(lines[k])
               IN /\ lines[k] = parts[k]
                  /\ frame.ok
                  /\ \A e \in 1..Len(frame.meta) : Len(frame.meta[e].key) = 1
                  /\ EntriesOf(frame) =
                       FrameMeta(emitFlags, formatToCode(flags.format), k - 1, Len(chunks))
                  /\ frame.payload = chunks[k]

\* C20 witness: a write of three frames with all display options given was
\* cut into its three frames again
C20_Witness ==
  /\ TransmitDone
  /\ Len(chunks) = 3
  /\ flags.imageId = Some(5)
  /\ flags.noMove
  /\ Len(output) = 1
  /\ Len(splitApcs(output[1])) = 3
  /\ Cardinality(TerminatorPositions(output[1])) = 3
  /\ parseApc(splitApcs(output[1])[3]).payload = chunks[3]

====
